---------------------------- MODULE Spec2Model ----------------------------
(***************************************************************************)
(* Lock-free split-ordered hash map (src/src/hashmap.c) on top of the      *)
(* epoch-based reclamation of src/src/epoch.c.                             *)
(*                                                                         *)
(* Every atomic access of the C code to shared memory is one action of a   *)
(* thread; the thread-local computation that follows an access is part of  *)
(* the same action.  The memory model is sequential consistency.           *)
(*                                                                         *)
(* malloc and calloc always succeed and never hand out an address again.   *)
(* A read of memory that has been freed, or past the end of a bucket       *)
(* array, sets uaf or oob and returns either what was there or one of the  *)
(* other values the allocator may have left.                               *)
(***************************************************************************)
EXTENDS Integers, Sequences, FiniteSets, TLC

(***************************************************************************)
(* 64-bit unsigned integers.  TLC's integers are 32 bits wide, so a        *)
(* uint64_t is a tuple of four 16-bit limbs, most significant first:       *)
(* tuples compare as the numbers do, limb by limb.                         *)
(***************************************************************************)
Limb == 65536

U64(n) == <<0, 0, n \div Limb, n % Limb>>

Zero64 == U64(0)

U64Less(a, b) ==
    \E i \in 1..4 : a[i] < b[i] /\ \A j \in 1..(i - 1) : a[j] = b[j]

U64Leq(a, b) == a = b \/ U64Less(a, b)

\* bit i (0 = least significant) of a
BitOf(a, i) == (a[4 - (i \div 16)] \div (2 ^ (i % 16))) % 2

ToBits(a) == [i \in 0..63 |-> BitOf(a, i)]

LimbOfBits(b, l) ==
    LET RECURSIVE sum(_)
        sum(i) == IF i > 15 THEN 0 ELSE b[16 * l + i] * (2 ^ i) + sum(i + 1)
    IN sum(0)

FromBits(b) == <<LimbOfBits(b, 3), LimbOfBits(b, 2), LimbOfBits(b, 1), LimbOfBits(b, 0)>>

\* x ^ (x >> n)
XorShr(a, n) ==
    LET b == ToBits(a)
    IN FromBits([i \in 0..63 |-> (b[i] + (IF i + n <= 63 THEN b[i + n] ELSE 0)) % 2])

\* the eight bytes of a, least significant first (index 0..7)
BytesOf(a) ==
    [i \in 0..7 |-> IF i % 2 = 0 THEN a[4 - (i \div 2)] % 256
                                 ELSE a[4 - (i \div 2)] \div 256]

\* a * c modulo 2^64, schoolbook on bytes
Mul64(a, c) ==
    LET x == BytesOf(a)
        y == BytesOf(c)
        RECURSIVE col(_, _)
        col(k, i) == IF i > k THEN 0 ELSE x[i] * y[k - i] + col(k, i + 1)
        RECURSIVE carry(_)
        carry(k) == IF k = 0 THEN 0 ELSE (col(k - 1, 0) + carry(k - 1)) \div 256
        byte(k) == (col(k, 0) + carry(k)) % 256
    IN <<byte(7) * 256 + byte(6), byte(5) * 256 + byte(4),
         byte(3) * 256 + byte(2), byte(1) * 256 + byte(0)>>

reverse_bits(a) ==
    LET b == ToBits(a) IN FromBits([i \in 0..63 |-> b[63 - i]])

\* 0xbf58476d1ce4e5b9 and 0x94d049bb133111eb
MixC1 == <<48984, 18285, 7396, 58809>>
MixC2 == <<38096, 18875, 4913, 4587>>

hash_key(key) ==
    LET k1 == Mul64(XorShr(key, 30), MixC1)
        k2 == Mul64(XorShr(k1, 27), MixC2)
    IN XorShr(k2, 31)

Or1(a) == <<a[1], a[2], a[3], a[4] + (1 - (a[4] % 2))>>

\* the split-ordered key without the bit reversal
make_so_unreversed(key) == Or1(hash_key(key))

make_so_regular(key) == Or1(reverse_bits(hash_key(key)))

make_so_dummy(bucket) == reverse_bits(U64(bucket))

\* hash & (cap - 1), for a capacity that is a power of two below 2^16
MaskCap(h, cap) == h[4] % cap


(***************************************************************************)
(* Program constants and the bounds of the model.                          *)
(*                                                                         *)
(* EPOCH_MAX_THREADS is 64 and HASHMAP_INIT_CAP is 16 (= 2^4) in the       *)
(* source.  The model keeps the code that reads them and scales both down  *)
(* (a table of a few slots, an initial capacity of 2^InitCapLog2) so that  *)
(* a full slot table and several capacity doublings are reached with a     *)
(* handful of threads and keys.                                            *)
(***************************************************************************)
EPOCH_COUNT == 3

EPOCH_MAX_THREADS == 2

HASHMAP_LOAD_FACTOR == 75

InitCapLog2 == 1

HASHMAP_INIT_CAP == 2 ^ InitCapLog2

\* stands for 2^64 - 1: larger than every epoch the model reaches
UINT64_MAX == 2147483647

NULL == 0

\* &map->head, the sentinel embedded in the map
HEAD == 1

\* the bucket array allocated by hashmap_create
ARR0 == 1

\* "no slot": the value of tls_epoch_slot before registration
NOSLOT == -1

NThreads == 3

Threads == 1..NThreads

Slots == 0..(EPOCH_MAX_THREADS - 1)

\* addresses handed out by malloc/calloc: each thread draws from a range of
\* its own, so that an address does not depend on the interleaving
PoolSize == 16

NodeAddr(t, j) == t * PoolSize + j

ArrAddr(t, j) == t * PoolSize + j

NodePtr(n) == <<"node", n>>

ArrPtr(a) == <<"arr", a>>

\* the keys and values the clients use.  K1..K4 are the keys 1..4; KX is the
\* key whose hash differs from hash_key(1) in bit 63 only, so that
\* make_so_regular(KX) = make_so_regular(K1).
K1 == U64(1)

K2 == U64(2)

K3 == U64(3)

K4 == U64(4)

KX == <<14109, 14226, 42196, 51979>>

KeySpace == {K1, K2, K3, K4, KX}

\* hash_key and make_so_regular of the keys in use, evaluated once
HashOf == [k \in KeySpace |-> hash_key(k)]

SoOf == [k \in KeySpace |-> make_so_regular(k)]

DummySo == [b \in 0..63 |-> make_so_dummy(b)]

VARIABLES
    global_epoch,   \* e->global_epoch
    threads,        \* e->threads[i]: active, epoch, in_critical, retire[3]
    nodes,          \* the heap of struct hm_node, by address
    arrays,         \* the heap of bucket arrays, by address
    map_buckets,    \* map->buckets
    map_size,       \* map->size
    map_count,      \* map->count
    hm_tls,         \* hashmap.c's thread-local tls_epoch_slot
    ep_tls,         \* epoch.c's thread-local tls_epoch_slot
    myslot,         \* the caller's variable holding register's result
    nalloc,         \* per thread: how many nodes and arrays it has allocated
    th,             \* per thread: position and locals of the call in progress
    prog,           \* per thread: the calls it still has to make
    hist,           \* per thread: the map calls made, with their results
    freed,          \* log of the calls of free and of the free callback
    uaf,            \* a thread has accessed memory after it was freed
    oob             \* a thread has indexed a bucket array past its end

vars == <<global_epoch, threads, nodes, arrays, map_buckets, map_size,
          map_count, hm_tls, ep_tls, myslot, nalloc, th, prog, hist, freed, uaf, oob>>

epochVars == <<global_epoch, threads>>

mapVars == <<nodes, arrays, map_buckets, map_size, map_count>>

(***************************************************************************)
(* Heap objects.                                                           *)
(***************************************************************************)
Node(key, so_key, value, is_dummy) ==
    [key |-> key, so_key |-> so_key, value |-> value,
     next |-> NULL, mark |-> FALSE, is_dummy |-> is_dummy]

\* calloc(n, sizeof(struct hm_node *))
Calloc(n) == [i \in 1..n |-> NULL]

EmptySlot ==
    [active |-> FALSE, epoch |-> 0, in_critical |-> FALSE,
     retire |-> [j \in 0..(EPOCH_COUNT - 1) |-> <<>>]]

\* number of times free has been called on ptr
FreeCount(log, ptr) == Cardinality({f \in log : f.ptr = ptr})

IsFreed(ptr) == \E f \in freed : f.ptr = ptr

\* free(ptr), or the callback on ptr: ep is the epoch of its retirement
\* (-1 when it was never retired), at the global epoch now, by the path
LogFree(log, ptr, ep, by) ==
    log \cup {[ptr |-> ptr, ep |-> ep, at |-> global_epoch, by |-> by,
               n |-> FreeCount(log, ptr) + 1]}

RECURSIVE free_list(_, _, _)
free_list(log, q, by) ==
    IF q = <<>> THEN log
    ELSE free_list(LogFree(log, Head(q).ptr, Head(q).ep, by), Tail(q), by)

(***************************************************************************)
(* The locals of a call in progress.                                       *)
(***************************************************************************)
Idle ==
    [pc |-> "idle", op |-> "none", key |-> Zero64, val |-> NULL,
     slot |-> NOSLOT, ge |-> 0, ge2 |-> 0, i |-> 0,
     so_key |-> Zero64, bucket |-> 0, frames |-> <<>>,
     bkts |-> NULL, bhead |-> NULL,
     fhead |-> NULL, ftarget |-> Zero64, fepoch |-> FALSE, fcaller |-> "none",
     icaller |-> "none", prev |-> NULL, curr |-> NULL, next |-> NULL,
     newnode |-> NULL, result |-> NULL, dval |-> NULL, ret |-> NULL,
     r_count |-> 0, r_cap |-> 0, r_old |-> NULL, r_new |-> NULL,
     rptr |-> <<>>, rcont |-> "none", alloc |-> "none", sawfull |-> FALSE]

MapOps == {"put", "get", "remove"}

\* the calls of hashmap.h that a thread makes while the map is in use
HashmapOps == MapOps \cup {"register", "unregister"}

\* the calls of epoch.h that a thread makes on an epoch_t of its own:
\* "cycle" is epoch_enter, val times malloc and epoch_retire, epoch_exit
EpochOps == {"epoch_register", "epoch_unregister", "cycle"}

\* hashmap_thread_register and epoch_register
RegisterOps == {"register", "epoch_register"}

Op(op, key, val) == [op |-> op, key |-> key, val |-> val]

\* the keys and values of the regular nodes that are not marked as deleted
Contents ==
    {<<nodes[n].key, nodes[n].value>> :
        n \in {x \in DOMAIN nodes : ~nodes[x].is_dummy /\ ~nodes[x].mark}}

\* the calls that have returned
Done == {<<t, n>> \in Threads \X (1..PoolSize) : n <= Len(hist[t]) /\ hist[t][n].done}

\* a thread moves to r; a call that has reached "return" hands its result to
\* the caller and the thread is idle again
StepC(t, r, count) ==
    /\ th' = [th EXCEPT ![t] = IF r.pc = "return" THEN Idle ELSE r]
    /\ hist' = IF r.pc = "return" /\ r.op \in MapOps
               THEN [hist EXCEPT ![t][Len(hist[t])] =
                        [@ EXCEPT !.ret = r.ret, !.done = TRUE, !.cnt1 = count,
                                  !.kv1 = Contents]]
               ELSE hist

Step(t, r) == StepC(t, r, map_count)

At(t, pc) == th[t].pc = pc


(***************************************************************************)
(* Calls.  A thread that is idle makes the next call of its program: one   *)
(* of the calls the program allows at this point.                          *)
(***************************************************************************)
\* every slot of the table is held
AllActive(thr) == \A s \in Slots : thr[s].active

\* hashmap_put without its test of the value
RejectedKeyOnly(o) == o.key = Zero64

\* hashmap_put: if (key == 0 || !value) return NULL; get and remove: key == 0
Rejected(o) == o.key = Zero64 \/ (o.op = "put" /\ o.val = NULL)

Call(t, o) == [Idle EXCEPT !.op = o.op, !.key = o.key, !.val = o.val]

HistRec(o, rejected) ==
    [op |-> o.op, key |-> o.key, val |-> o.val, ret |-> NULL, done |-> rejected,
     prior |-> Done, cnt0 |-> map_count, cnt1 |-> map_count,
     kv0 |-> Contents, kv1 |-> Contents]

Invoke(t) ==
    /\ At(t, "idle")
    /\ prog[t] # <<>>
    /\ \E o \in Head(prog[t]) :
        /\ o.op \in HashmapOps
        /\ prog' = [prog EXCEPT ![t] = Tail(@)]
        /\ IF o.op = "register"
           THEN /\ th' = [th EXCEPT ![t] = [Call(t, o) EXCEPT
                                              !.pc = "reg_cas", !.sawfull = AllActive(threads)]]
                /\ UNCHANGED <<hist, hm_tls>>
           ELSE IF o.op = "unregister"
           THEN \* epoch_unregister: if (slot < 0 || slot >= EPOCH_MAX_THREADS) return;
                IF myslot[t] \in Slots
                THEN /\ th' = [th EXCEPT ![t] = [Call(t, o) EXCEPT
                                    !.pc = "unreg_drain", !.slot = myslot[t]]]
                     /\ UNCHANGED <<hist, hm_tls>>
                ELSE /\ hm_tls' = [hm_tls EXCEPT ![t] = NOSLOT]
                     /\ UNCHANGED <<hist, th>>
           ELSE /\ hist' = [hist EXCEPT ![t] = Append(@, HistRec(o, Rejected(o)))]
                /\ th' = [th EXCEPT ![t] =
                            IF Rejected(o) THEN Idle
                            ELSE [Call(t, o) EXCEPT
                                    !.slot = hm_tls[t],
                                    !.pc = IF hm_tls[t] >= 0 THEN "enter_load"
                                                             ELSE "op_size"]]
                /\ UNCHANGED hm_tls
    /\ UNCHANGED <<epochVars, mapVars, ep_tls, myslot, nalloc, freed, uaf, oob>>

(***************************************************************************)
(* epoch_register, called by hashmap_thread_register.                      *)
(***************************************************************************)
\* the thread whose variable receives the slot that epoch_register returns:
\* the caller's own, or args[i].slot of the worker the caller registers it for
SlotVar(t, r) == IF r.op = "epoch_register" THEN r.val ELSE t

\* hashmap.c's thread-local slot is written by hashmap_thread_register and
\* hashmap_thread_unregister only
HmTls(t, r, v) == IF r.op \in {"register", "unregister"} THEN [hm_tls EXCEPT ![t] = v]
                                                         ELSE hm_tls

\* history: the calls of epoch_register in progress when the table is full
\* have seen it full
NoteFull(calls, thr) ==
    [u \in Threads |->
        IF calls[u].op \in RegisterOps /\ AllActive(thr)
        THEN [calls[u] EXCEPT !.sawfull = TRUE] ELSE calls[u]]

\* an epoch_register that takes the first slot without the CAS on active
RegCasBlind(t) ==
    /\ At(t, "reg_cas")
    /\ LET r == th[t] IN
        /\ threads' = [threads EXCEPT ![r.i].active = TRUE]
        /\ th' = NoteFull([th EXCEPT ![t] = [r EXCEPT !.pc = "reg_load"]], threads')
        /\ UNCHANGED <<hist, hm_tls, myslot>>
    /\ UNCHANGED <<global_epoch, mapVars, ep_tls, nalloc, prog, freed, uaf, oob>>

RegCas(t) ==
    /\ At(t, "reg_cas")
    /\ LET r == th[t] IN
        IF ~threads[r.i].active
        THEN /\ threads' = [threads EXCEPT ![r.i].active = TRUE]
             /\ th' = NoteFull([th EXCEPT ![t] = [r EXCEPT !.pc = "reg_load"]], threads')
             /\ UNCHANGED <<hist, hm_tls, myslot>>
        ELSE IF r.i + 1 < EPOCH_MAX_THREADS
        THEN /\ Step(t, [r EXCEPT !.i = r.i + 1])
             /\ UNCHANGED <<threads, hm_tls, myslot>>
        ELSE \* return -1; hashmap_thread_register: tls_epoch_slot = slot
             /\ Step(t, [r EXCEPT !.pc = "return"])
             /\ hm_tls' = HmTls(t, r, NOSLOT)
             /\ myslot' = [myslot EXCEPT ![SlotVar(t, r)] = NOSLOT]
             /\ UNCHANGED threads
    /\ UNCHANGED <<global_epoch, mapVars, ep_tls, nalloc, prog, freed, uaf, oob>>

RegLoad(t) ==
    /\ At(t, "reg_load")
    /\ Step(t, [th[t] EXCEPT !.pc = "reg_store", !.ge = global_epoch])
    /\ UNCHANGED <<epochVars, mapVars, hm_tls, ep_tls, myslot, nalloc, prog, freed, uaf, oob>>

RegStore(t) ==
    /\ At(t, "reg_store")
    /\ LET r == th[t] IN
        /\ threads' = [threads EXCEPT ![r.i].epoch = r.ge]
        /\ ep_tls' = [ep_tls EXCEPT ![t] = r.i]
        /\ hm_tls' = HmTls(t, r, r.i)
        /\ myslot' = [myslot EXCEPT ![SlotVar(t, r)] = r.i]
        /\ Step(t, [r EXCEPT !.pc = "return"])
    /\ UNCHANGED <<global_epoch, mapVars, nalloc, prog, freed, uaf, oob>>

(***************************************************************************)
(* epoch_unregister, called by hashmap_thread_unregister.                  *)
(***************************************************************************)
\* the three retire lists of a slot, one after the other
AllRetired(s) == threads[s].retire[0] \o threads[s].retire[1] \o threads[s].retire[2]

\* an epoch_unregister that frees only the list try_reclaim would free
UnregDrainSafeOnly(t) ==
    /\ At(t, "unreg_drain")
    /\ LET r == th[t]
           idx == (global_epoch - 2) % EPOCH_COUNT
       IN /\ freed' = free_list(freed, threads[r.slot].retire[idx], "unregister")
          /\ threads' = [threads EXCEPT ![r.slot].retire[idx] = <<>>]
          /\ Step(t, [r EXCEPT !.pc = "unreg_store"])
    /\ UNCHANGED <<global_epoch, mapVars, hm_tls, ep_tls, myslot, nalloc, prog, uaf, oob>>

UnregDrain(t) ==
    /\ At(t, "unreg_drain")
    /\ LET r == th[t] IN
        /\ freed' = free_list(freed, AllRetired(r.slot), "unregister")
        /\ threads' = [threads EXCEPT ![r.slot].retire = EmptySlot.retire]
        /\ Step(t, [r EXCEPT !.pc = "unreg_store"])
    /\ UNCHANGED <<global_epoch, mapVars, hm_tls, ep_tls, myslot, nalloc, prog, uaf, oob>>

UnregStore(t) ==
    /\ At(t, "unreg_store")
    /\ LET r == th[t] IN
        /\ threads' = [threads EXCEPT ![r.slot].active = FALSE]
        /\ ep_tls' = [ep_tls EXCEPT ![t] = IF @ = r.slot THEN NOSLOT ELSE @]
        /\ hm_tls' = HmTls(t, r, NOSLOT)
        /\ Step(t, [r EXCEPT !.pc = "return"])
    /\ UNCHANGED <<global_epoch, mapVars, myslot, nalloc, prog, freed, uaf, oob>>

(***************************************************************************)
(* epoch_enter, with epoch_try_advance and try_reclaim.                    *)
(***************************************************************************)
SafeIdx(e) == (e - 2) % EPOCH_COUNT

\* epoch_enter has returned: to the map operation, or to the caller's own
\* critical section
Entered(r) == [r EXCEPT !.pc = IF r.op = "cycle" THEN "cycle" ELSE "op_size"]

\* epoch_enter after epoch_try_advance has returned:
\* if (ge >= 2) and the list at (ge - 2) % EPOCH_COUNT is not empty, free it
AfterAdvance(r, thr) ==
    IF r.ge >= 2 /\ thr[r.slot].retire[SafeIdx(r.ge)] # <<>>
    THEN [r EXCEPT !.pc = "enter_reclaim", !.ge2 = 0, !.i = 0]
    ELSE Entered([r EXCEPT !.ge = 0, !.ge2 = 0, !.i = 0])

EnterLoad(t) ==
    /\ At(t, "enter_load")
    /\ Step(t, [th[t] EXCEPT !.pc = "enter_store", !.ge = global_epoch])
    /\ UNCHANGED <<epochVars, mapVars, hm_tls, ep_tls, myslot, nalloc, prog, freed, uaf, oob>>

EnterStore(t) ==
    /\ At(t, "enter_store")
    /\ LET r == th[t] IN
        /\ threads' = [threads EXCEPT ![r.slot].epoch = r.ge,
                                      ![r.slot].in_critical = TRUE]
        /\ Step(t, [r EXCEPT !.pc = "adv_load"])
    /\ UNCHANGED <<global_epoch, mapVars, hm_tls, ep_tls, myslot, nalloc, prog, freed, uaf, oob>>

AdvLoad(t) ==
    /\ At(t, "adv_load")
    /\ Step(t, [th[t] EXCEPT !.pc = "adv_active", !.ge2 = global_epoch, !.i = 0])
    /\ UNCHANGED <<epochVars, mapVars, hm_tls, ep_tls, myslot, nalloc, prog, freed, uaf, oob>>

\* the loop of epoch_try_advance moves to the next slot, or to the CAS
AdvNextSlot(r) ==
    IF r.i + 1 < EPOCH_MAX_THREADS THEN [r EXCEPT !.pc = "adv_active", !.i = r.i + 1]
                                   ELSE [r EXCEPT !.pc = "adv_cas"]

AdvActive(t) ==
    /\ At(t, "adv_active")
    /\ LET r == th[t] IN
        Step(t, IF threads[r.i].active THEN [r EXCEPT !.pc = "adv_epoch"]
                                       ELSE AdvNextSlot(r))
    /\ UNCHANGED <<epochVars, mapVars, hm_tls, ep_tls, myslot, nalloc, prog, freed, uaf, oob>>

\* a test that takes a thread at the global epoch to be behind it
BehindOrLevel(te, ge) == te # UINT64_MAX /\ te <= ge

\* if (te != UINT64_MAX && te < ge) return;
Behind(te, ge) == te # UINT64_MAX /\ te < ge

AdvEpoch(t) ==
    /\ At(t, "adv_epoch")
    /\ LET r == th[t] IN
        Step(t, IF Behind(threads[r.i].epoch, r.ge2) THEN AfterAdvance(r, threads)
                                                     ELSE AdvNextSlot(r))
    /\ UNCHANGED <<epochVars, mapVars, hm_tls, ep_tls, myslot, nalloc, prog, freed, uaf, oob>>

\* try_reclaim(e, new_epoch) has something to free
ReclaimTarget(t, new_epoch) ==
    /\ new_epoch >= 2
    /\ ep_tls[t] \in Slots
    /\ threads[ep_tls[t]].retire[SafeIdx(new_epoch)] # <<>>

AdvCas(t) ==
    /\ At(t, "adv_cas")
    /\ LET r == th[t] IN
        IF global_epoch = r.ge2
        THEN /\ global_epoch' = r.ge2 + 1
             /\ Step(t, IF ReclaimTarget(t, r.ge2 + 1)
                        THEN [r EXCEPT !.pc = "adv_reclaim"]
                        ELSE AfterAdvance(r, threads))
        ELSE /\ Step(t, AfterAdvance(r, threads))
             /\ UNCHANGED global_epoch
    /\ UNCHANGED <<threads, mapVars, hm_tls, ep_tls, myslot, nalloc, prog, freed, uaf, oob>>

\* a try_reclaim that leaves the freed entries on the list
AdvReclaimKeep(t) ==
    /\ At(t, "adv_reclaim")
    /\ LET r == th[t]
           idx == SafeIdx(r.ge2 + 1)
           s == ep_tls[t]
       IN /\ freed' = free_list(freed, threads[s].retire[idx], "try_advance")
          /\ Step(t, AfterAdvance(r, threads))
    /\ UNCHANGED <<epochVars, mapVars, hm_tls, ep_tls, myslot, nalloc, prog, uaf, oob>>

AdvReclaim(t) ==
    /\ At(t, "adv_reclaim")
    /\ LET r == th[t]
           idx == SafeIdx(r.ge2 + 1)
           s == ep_tls[t]
       IN /\ freed' = free_list(freed, threads[s].retire[idx], "try_advance")
          /\ threads' = [threads EXCEPT ![s].retire[idx] = <<>>]
          /\ Step(t, AfterAdvance(r, threads'))
    /\ UNCHANGED <<global_epoch, mapVars, hm_tls, ep_tls, myslot, nalloc, prog, uaf, oob>>


EnterReclaim(t) ==
    /\ At(t, "enter_reclaim")
    /\ LET r == th[t]
           idx == SafeIdx(r.ge)
       IN /\ freed' = free_list(freed, threads[r.slot].retire[idx], "enter")
          /\ threads' = [threads EXCEPT ![r.slot].retire[idx] = <<>>]
          /\ Step(t, Entered([r EXCEPT !.ge = 0]))
    /\ UNCHANGED <<global_epoch, mapVars, hm_tls, ep_tls, myslot, nalloc, prog, uaf, oob>>

(***************************************************************************)
(* epoch_exit, and what put and remove do after it.                        *)
(***************************************************************************)
AfterExit(r) ==
    IF r.op = "put" /\ r.newnode # NULL /\ r.result = r.newnode
    THEN [r EXCEPT !.pc = "put_count"]
    ELSE IF r.op = "remove" /\ r.ret # NULL
    THEN [r EXCEPT !.pc = "rem_count"]
    ELSE [r EXCEPT !.pc = "return"]

\* the locals that are still live when the list operation has returned
Tidy(r) ==
    [Idle EXCEPT !.op = r.op, !.key = r.key, !.val = r.val, !.slot = r.slot,
                 !.newnode = r.newnode, !.result = r.result, !.ret = r.ret,
                 !.alloc = r.alloc]

\* if (slot >= 0) epoch_exit(&map->epoch, slot);
Leave(r) == IF r.slot >= 0 THEN [Tidy(r) EXCEPT !.pc = "exit"] ELSE AfterExit(Tidy(r))

Exit(t) ==
    /\ At(t, "exit")
    /\ LET r == th[t] IN
        /\ threads' = [threads EXCEPT ![r.slot].in_critical = FALSE,
                                      ![r.slot].epoch = UINT64_MAX]
        /\ Step(t, AfterExit(r))
    /\ UNCHANGED <<global_epoch, mapVars, hm_tls, ep_tls, myslot, nalloc, prog, freed, uaf, oob>>

(***************************************************************************)
(* Steps that may end in node_alloc or in free(new_node): the request is   *)
(* left in r.alloc by the local code and carried out with the step.        *)
(***************************************************************************)
NewNode(r) ==
    IF r.alloc = "dummy" THEN Node(Zero64, DummySo[Head(r.frames).idx], NULL, TRUE)
                         ELSE Node(r.key, r.so_key, r.val, FALSE)

Step2(t, r, nd, log) ==
    LET addr == NodeAddr(t, nalloc[t])
        allocates == r.alloc \in {"regular", "dummy"}
    IN /\ nodes' = IF allocates THEN (addr :> NewNode(r)) @@ nd ELSE nd
       /\ nalloc' = [nalloc EXCEPT ![t] = IF allocates THEN @ + 1 ELSE @]
       /\ freed' = IF r.alloc = "discard"
                   THEN LogFree(log, NodePtr(r.newnode), -1, "free") ELSE log
       /\ Step(t, [r EXCEPT !.alloc = "none",
                            !.newnode = IF allocates THEN addr ELSE @])

(***************************************************************************)
(* list_find, and the code of its callers that follows its return.         *)
(***************************************************************************)
\* list_insert(head, new_node) starts: its loop calls list_find(NULL, ...)
StartInsert(r, head, so_key, caller, kind) ==
    [r EXCEPT !.pc = "find_head", !.fhead = head, !.ftarget = so_key,
              !.fepoch = FALSE, !.fcaller = "ins", !.icaller = caller,
              !.alloc = kind, !.prev = NULL, !.curr = NULL, !.next = NULL]

\* initialize_bucket returns; the frame below, if any, goes on after its
\* recursive call: node_alloc of the dummy and list_insert(&map->head, dummy)
IbReturn(r) ==
    LET fr == Tail(r.frames) IN
    IF fr = <<>> THEN [r EXCEPT !.frames = fr, !.pc = "op_buckets"]
    ELSE StartInsert([r EXCEPT !.frames = fr], HEAD, DummySo[Head(fr).idx], "ib", "dummy")

\* list_insert returns result
InsRet(r, result) ==
    IF r.icaller = "ib" THEN [r EXCEPT !.pc = "ib_cas", !.result = result]
    ELSE Leave([r EXCEPT !.result = result, !.ret = NULL])

\* curr is the node the caller is looking for
Match(r, nd, curr) == curr # NULL /\ ~nd[curr].is_dummy /\ nd[curr].key = r.key

FindRet(r0, nd, found, prev, curr) ==
    LET r == [r0 EXCEPT !.prev = prev, !.curr = curr, !.next = NULL] IN
    CASE r.fcaller = "op" /\ r.op = "put" ->
            IF found /\ Match(r, nd, curr) THEN [r EXCEPT !.pc = "put_xchg"]
            ELSE StartInsert(r, r.bhead, r.so_key, "put", "regular")
      [] r.fcaller = "op" /\ r.op = "get" ->
            IF found /\ Match(r, nd, curr) THEN [r EXCEPT !.pc = "get_load"]
            ELSE Leave([r EXCEPT !.ret = NULL])
      [] r.fcaller = "del" ->
            IF found /\ Match(r, nd, curr) THEN [r EXCEPT !.pc = "del_value"]
            ELSE Leave([r EXCEPT !.ret = NULL])
      [] OTHER -> \* list_insert
            IF ~found THEN [r EXCEPT !.pc = "ins_cas"]
            ELSE IF nd[r.newnode].is_dummy
            THEN InsRet([r EXCEPT !.alloc = "discard"], curr)
            ELSE IF ~nd[curr].is_dummy /\ nd[curr].key = nd[r.newnode].key
            THEN [r EXCEPT !.pc = "ins_store"]
            ELSE [r EXCEPT !.pc = "ins_cas"]

\* what a load of n->next can return: the field or, once n has been freed,
\* whatever the allocator has left there
ReadNext(n) ==
    {<<nodes[n].next, nodes[n].mark>>}
        \cup (IF IsFreed(NodePtr(n)) THEN {<<NULL, FALSE>>} ELSE {})

Touch(ptrs) == uaf \/ \E p \in ptrs : IsFreed(p)

\* the loop of list_find goes on with curr
FindLoop(r, nd, prev, curr) ==
    IF curr = NULL THEN FindRet(r, nd, FALSE, prev, NULL)
    ELSE [r EXCEPT !.pc = "find_next", !.prev = prev, !.curr = curr, !.next = NULL]

FindHead(t) ==
    /\ At(t, "find_head")
    /\ LET r == th[t] IN
        \E nx \in ReadNext(r.fhead) :
            /\ Step2(t, FindLoop(r, nodes, r.fhead, nx[1]), nodes, freed)
            /\ uaf' = Touch({NodePtr(r.fhead)})
    /\ UNCHANGED <<epochVars, arrays, map_buckets, map_size, map_count,
                   hm_tls, ep_tls, myslot, prog, oob>>

FindNext(t) ==
    /\ At(t, "find_next")
    /\ LET r == th[t] IN
        \E nx \in ReadNext(r.curr) :
            /\ Step2(t, IF nx[2] THEN [r EXCEPT !.pc = "find_unlink", !.next = nx[1]]
                        ELSE IF U64Leq(r.ftarget, nodes[r.curr].so_key)
                        THEN FindRet(r, nodes, nodes[r.curr].so_key = r.ftarget,
                                     r.prev, r.curr)
                        ELSE FindLoop(r, nodes, r.curr, nx[1]),
                     nodes, freed)
            /\ uaf' = Touch({NodePtr(r.curr)})
    /\ UNCHANGED <<epochVars, arrays, map_buckets, map_size, map_count,
                   hm_tls, ep_tls, myslot, prog, oob>>

\* CAS(prev, (curr, unmarked), (next, unmarked))
Unlinked(nd, prev, curr, next) ==
    IF nd[prev].next = curr /\ ~nd[prev].mark
    THEN [nd EXCEPT ![prev].next = next] ELSE nd

FindUnlink(t) ==
    /\ At(t, "find_unlink")
    /\ LET r == th[t]
           ok == nodes[r.prev].next = r.curr /\ ~nodes[r.prev].mark
           nd == Unlinked(nodes, r.prev, r.curr, r.next)
       IN /\ Step2(t, IF ~ok THEN [r EXCEPT !.pc = "find_head", !.next = NULL]
                      ELSE IF r.fepoch
                      THEN [r EXCEPT !.pc = "retire", !.rptr = NodePtr(r.curr),
                                     !.rcont = "find"]
                      ELSE FindLoop(r, nd, r.prev, r.next),
                   nd, freed)
          /\ uaf' = Touch({NodePtr(r.prev)})
    /\ UNCHANGED <<epochVars, arrays, map_buckets, map_size, map_count,
                   hm_tls, ep_tls, myslot, prog, oob>>


(***************************************************************************)
(* list_insert after list_find.                                            *)
(***************************************************************************)
InsStore(t) ==
    /\ At(t, "ins_store")
    /\ LET r == th[t]
           nd == [nodes EXCEPT ![r.curr].value = nodes[r.newnode].value]
       IN /\ Step2(t, InsRet([r EXCEPT !.alloc = "discard"], r.curr), nd, freed)
          /\ uaf' = Touch({NodePtr(r.curr)})
    /\ UNCHANGED <<epochVars, arrays, map_buckets, map_size, map_count,
                   hm_tls, ep_tls, myslot, prog, oob>>

\* a list_insert whose CAS on prev never succeeds
InsCasFails(t) ==
    /\ At(t, "ins_cas")
    /\ LET r == th[t]
           nd1 == [nodes EXCEPT ![r.newnode].next = r.curr]
       IN /\ Step2(t, [r EXCEPT !.pc = "find_head"], nd1, freed)
          /\ uaf' = Touch({NodePtr(r.prev)})
    /\ UNCHANGED <<epochVars, arrays, map_buckets, map_size, map_count,
                   hm_tls, ep_tls, myslot, prog, oob>>

InsCas(t) ==
    /\ At(t, "ins_cas")
    /\ LET r == th[t]
           ok == nodes[r.prev].next = r.curr /\ ~nodes[r.prev].mark
           nd1 == [nodes EXCEPT ![r.newnode].next = r.curr]
           nd2 == [nd1 EXCEPT ![r.prev].next = r.newnode]
       IN /\ IF ok THEN Step2(t, InsRet(r, r.newnode), nd2, freed)
                   ELSE Step2(t, [r EXCEPT !.pc = "find_head"], nd1, freed)
          /\ uaf' = Touch({NodePtr(r.prev)})
    /\ UNCHANGED <<epochVars, arrays, map_buckets, map_size, map_count,
                   hm_tls, ep_tls, myslot, prog, oob>>

(***************************************************************************)
(* list_delete after list_find.                                            *)
(***************************************************************************)
DelValue(t) ==
    /\ At(t, "del_value")
    /\ LET r == th[t] IN
        /\ Step(t, [r EXCEPT !.pc = "del_next", !.dval = nodes[r.curr].value])
        /\ uaf' = Touch({NodePtr(r.curr)})
    /\ UNCHANGED <<epochVars, mapVars, hm_tls, ep_tls, myslot, nalloc, prog, freed, oob>>

DelNext(t) ==
    /\ At(t, "del_next")
    /\ LET r == th[t] IN
        \E nx \in ReadNext(r.curr) :
            /\ Step(t, IF nx[2] THEN Leave([r EXCEPT !.ret = NULL])
                       ELSE [r EXCEPT !.pc = "del_mark", !.next = nx[1]])
            /\ uaf' = Touch({NodePtr(r.curr)})
    /\ UNCHANGED <<epochVars, mapVars, hm_tls, ep_tls, myslot, nalloc, prog, freed, oob>>

\* CAS(&curr->next, (next, unmarked), (next, marked))
Marked(nd, curr, next) ==
    IF nd[curr].next = next /\ ~nd[curr].mark
    THEN [nd EXCEPT ![curr].mark = TRUE] ELSE nd

\* a list_delete that takes its CAS on curr->next to have succeeded
DelMarkAlways(t) ==
    /\ At(t, "del_mark")
    /\ LET r == th[t] IN
        /\ nodes' = [nodes EXCEPT ![r.curr].mark = TRUE]
        /\ Step(t, [r EXCEPT !.pc = "del_unlink"])
        /\ uaf' = Touch({NodePtr(r.curr)})
    /\ UNCHANGED <<epochVars, arrays, map_buckets, map_size, map_count,
                   hm_tls, ep_tls, myslot, nalloc, prog, freed, oob>>

DelMark(t) ==
    /\ At(t, "del_mark")
    /\ LET r == th[t]
           ok == nodes[r.curr].next = r.next /\ ~nodes[r.curr].mark
       IN /\ nodes' = Marked(nodes, r.curr, r.next)
          /\ Step(t, IF ok THEN [r EXCEPT !.pc = "del_unlink"]
                     ELSE [r EXCEPT !.pc = "find_head", !.next = NULL, !.dval = NULL])
          /\ uaf' = Touch({NodePtr(r.curr)})
    /\ UNCHANGED <<epochVars, arrays, map_buckets, map_size, map_count,
                   hm_tls, ep_tls, myslot, nalloc, prog, freed, oob>>

DelUnlink(t) ==
    /\ At(t, "del_unlink")
    /\ LET r == th[t] IN
        /\ nodes' = Unlinked(nodes, r.prev, r.curr, r.next)
        /\ Step(t, Leave([r EXCEPT !.ret = r.dval]))
        /\ uaf' = Touch({NodePtr(r.prev)})
    /\ UNCHANGED <<epochVars, arrays, map_buckets, map_size, map_count,
                   hm_tls, ep_tls, myslot, nalloc, prog, freed, oob>>

(***************************************************************************)
(* initialize_bucket.  r.frames is the stack of its recursive calls, the   *)
(* innermost first: each has its idx and the bucket array it has loaded.   *)
(***************************************************************************)
RECURSIVE TopBit(_)
TopBit(n) == IF n <= 1 THEN n ELSE 2 * TopBit(n \div 2)

\* the bucket with its highest set bit cleared
get_parent(bucket) == bucket - TopBit(bucket)

\* what a read of slot idx of array a can return
ReadSlot(a, idx) ==
    IF idx >= Len(arrays[a]) THEN {NULL} \cup DOMAIN nodes
    ELSE {arrays[a][idx + 1]}
            \cup (IF IsFreed(ArrPtr(a)) THEN {NULL} \cup DOMAIN nodes ELSE {})

Frame(idx) == [idx |-> idx, buckets |-> NULL]

IbBuckets(t) ==
    /\ At(t, "ib_buckets")
    /\ LET r == th[t] IN
        Step(t, [r EXCEPT !.pc = "ib_size", !.frames[1].buckets = map_buckets])
    /\ UNCHANGED <<epochVars, mapVars, hm_tls, ep_tls, myslot, nalloc, prog, freed, uaf, oob>>

IbSize(t) ==
    /\ At(t, "ib_size")
    /\ LET r == th[t] IN
        Step2(t, IF Head(r.frames).idx >= map_size THEN IbReturn(r)
                 ELSE [r EXCEPT !.pc = "ib_slot"],
              nodes, freed)
    /\ UNCHANGED <<epochVars, arrays, map_buckets, map_size, map_count,
                   hm_tls, ep_tls, myslot, prog, uaf, oob>>

IbSlot(t) ==
    /\ At(t, "ib_slot")
    /\ LET r == th[t]
           f == Head(r.frames)
       IN \E v \in ReadSlot(f.buckets, f.idx) :
            /\ Step2(t, IF v # NULL THEN IbReturn(r)
                        ELSE IF get_parent(f.idx) # f.idx
                        THEN [r EXCEPT !.pc = "ib_buckets",
                                       !.frames = <<Frame(get_parent(f.idx))>> \o @]
                        ELSE StartInsert(r, HEAD, DummySo[f.idx], "ib", "dummy"),
                     nodes, freed)
            /\ uaf' = Touch({ArrPtr(f.buckets)})
            /\ oob' = (oob \/ f.idx >= Len(arrays[f.buckets]))
    /\ UNCHANGED <<epochVars, arrays, map_buckets, map_size, map_count,
                   hm_tls, ep_tls, myslot, prog>>

\* CAS(&buckets[idx], NULL, inserted)
IbCas(t) ==
    /\ At(t, "ib_cas")
    /\ LET r == th[t]
           f == Head(r.frames)
           inside == f.idx < Len(arrays[f.buckets])
       IN /\ arrays' = IF inside /\ arrays[f.buckets][f.idx + 1] = NULL
                       THEN [arrays EXCEPT ![f.buckets][f.idx + 1] = r.result]
                       ELSE arrays
          /\ Step2(t, IbReturn([r EXCEPT !.result = NULL, !.newnode = NULL,
                                         !.prev = NULL, !.curr = NULL]),
                   nodes, freed)
          /\ uaf' = Touch({ArrPtr(f.buckets)})
          /\ oob' = (oob \/ ~inside)
    /\ UNCHANGED <<epochVars, map_buckets, map_size, map_count,
                   hm_tls, ep_tls, myslot, prog>>

(***************************************************************************)
(* hashmap_put, hashmap_get and hashmap_remove after epoch_enter.          *)
(***************************************************************************)
OpSize(t) ==
    /\ At(t, "op_size")
    /\ LET r == th[t]
           bucket == MaskCap(HashOf[r.key], map_size)
       IN Step(t, [r EXCEPT !.pc = "ib_buckets", !.so_key = SoOf[r.key],
                            !.bucket = bucket,
                            !.frames = <<Frame(bucket)>>])
    /\ UNCHANGED <<epochVars, mapVars, hm_tls, ep_tls, myslot, nalloc, prog, freed, uaf, oob>>

OpBuckets(t) ==
    /\ At(t, "op_buckets")
    /\ Step(t, [th[t] EXCEPT !.pc = "op_slot", !.bkts = map_buckets])
    /\ UNCHANGED <<epochVars, mapVars, hm_tls, ep_tls, myslot, nalloc, prog, freed, uaf, oob>>

\* bucket_head = buckets[bucket]; if (!bucket_head) bucket_head = &map->head;
\* then list_find(&map->epoch, ...) in put and get, list_delete in remove
OpSlot(t) ==
    /\ At(t, "op_slot")
    /\ LET r == th[t] IN
        \E v \in ReadSlot(r.bkts, r.bucket) :
            LET bhead == IF v = NULL THEN HEAD ELSE v IN
            /\ Step(t, [r EXCEPT !.pc = "find_head", !.bhead = bhead,
                                 !.fhead = bhead, !.ftarget = r.so_key,
                                 !.fepoch = (r.op # "remove"),
                                 !.fcaller = IF r.op = "remove" THEN "del" ELSE "op"])
            /\ uaf' = Touch({ArrPtr(r.bkts)})
            /\ oob' = (oob \/ r.bucket >= Len(arrays[r.bkts]))
    /\ UNCHANGED <<epochVars, mapVars, hm_tls, ep_tls, myslot, nalloc, prog, freed>>

\* old = atomic_exchange(&curr->value, value)
PutXchg(t) ==
    /\ At(t, "put_xchg")
    /\ LET r == th[t] IN
        /\ nodes' = [nodes EXCEPT ![r.curr].value = r.val]
        /\ Step(t, Leave([r EXCEPT !.ret = nodes[r.curr].value]))
        /\ uaf' = Touch({NodePtr(r.curr)})
    /\ UNCHANGED <<epochVars, arrays, map_buckets, map_size, map_count,
                   hm_tls, ep_tls, myslot, nalloc, prog, freed, oob>>

GetLoad(t) ==
    /\ At(t, "get_load")
    /\ LET r == th[t] IN
        /\ Step(t, Leave([r EXCEPT !.ret = nodes[r.curr].value]))
        /\ uaf' = Touch({NodePtr(r.curr)})
    /\ UNCHANGED <<epochVars, mapVars, hm_tls, ep_tls, myslot, nalloc, prog, freed, oob>>

\* map->count is a size_t: the model lets it go below 0 where the code wraps
\* around to 2^64 - 1
PutCount(t) ==
    /\ At(t, "put_count")
    /\ map_count' = map_count + 1
    /\ Step(t, [th[t] EXCEPT !.pc = "rs_count"])
    /\ UNCHANGED <<epochVars, nodes, arrays, map_buckets, map_size,
                   hm_tls, ep_tls, myslot, nalloc, prog, freed, uaf, oob>>

RemCount(t) ==
    /\ At(t, "rem_count")
    /\ map_count' = map_count - 1
    /\ StepC(t, [th[t] EXCEPT !.pc = "return"], map_count - 1)
    /\ UNCHANGED <<epochVars, nodes, arrays, map_buckets, map_size,
                   hm_tls, ep_tls, myslot, nalloc, prog, freed, uaf, oob>>


(***************************************************************************)
(* maybe_resize, called by hashmap_put after a new insertion.              *)
(***************************************************************************)
\* if (count * 100 < cap * HASHMAP_LOAD_FACTOR) return;   (unsigned)
BelowThreshold(count, cap) == count >= 0 /\ count * 100 < cap * HASHMAP_LOAD_FACTOR

RsCount(t) ==
    /\ At(t, "rs_count")
    /\ Step(t, [th[t] EXCEPT !.pc = "rs_size", !.r_count = map_count])
    /\ UNCHANGED <<epochVars, mapVars, hm_tls, ep_tls, myslot, nalloc, prog, freed, uaf, oob>>

RsSize(t) ==
    /\ At(t, "rs_size")
    /\ LET r == th[t] IN
        Step(t, IF BelowThreshold(r.r_count, map_size)
                THEN [r EXCEPT !.pc = "return", !.ret = NULL]
                ELSE [r EXCEPT !.pc = "rs_buckets", !.r_cap = map_size, !.r_count = 0])
    /\ UNCHANGED <<epochVars, mapVars, hm_tls, ep_tls, myslot, nalloc, prog, freed, uaf, oob>>

\* old_buckets = load(&map->buckets); new_buckets = calloc(new_cap, ...)
RsBuckets(t) ==
    /\ At(t, "rs_buckets")
    /\ LET r == th[t]
           addr == ArrAddr(t, nalloc[t])
       IN /\ arrays' = (addr :> Calloc(2 * r.r_cap)) @@ arrays
          /\ nalloc' = [nalloc EXCEPT ![t] = @ + 1]
          /\ Step(t, [r EXCEPT !.pc = "rs_copy", !.r_old = map_buckets, !.r_new = addr])
    /\ UNCHANGED <<epochVars, nodes, map_buckets, map_size, map_count,
                   hm_tls, ep_tls, myslot, prog, freed, uaf, oob>>

\* what memcpy(new_buckets, old_buckets, cap * sizeof(...)) can read
ReadArray(a, cap) ==
    {[i \in 1..cap |-> IF i <= Len(arrays[a]) THEN arrays[a][i] ELSE NULL]}
        \cup (IF IsFreed(ArrPtr(a)) THEN {[i \in 1..cap |-> NULL]} ELSE {})

RsCopy(t) ==
    /\ At(t, "rs_copy")
    /\ LET r == th[t] IN
        \E src \in ReadArray(r.r_old, r.r_cap) :
            /\ arrays' = [arrays EXCEPT ![r.r_new] =
                            [i \in 1..(2 * r.r_cap) |-> IF i <= r.r_cap THEN src[i] ELSE NULL]]
            /\ Step(t, [r EXCEPT !.pc = "rs_cas"])
            /\ uaf' = Touch({ArrPtr(r.r_old)})
            /\ oob' = (oob \/ r.r_cap > Len(arrays[r.r_old]))
    /\ UNCHANGED <<epochVars, nodes, map_buckets, map_size, map_count,
                   hm_tls, ep_tls, myslot, nalloc, prog, freed>>

\* a CAS whose loser frees the array it read, not the one it allocated
RsCasFreesOld(t) ==
    /\ At(t, "rs_cas")
    /\ LET r == th[t] IN
        IF map_buckets = r.r_old
        THEN /\ map_buckets' = r.r_new
             /\ Step(t, [r EXCEPT !.pc = "rs_store"])
             /\ UNCHANGED freed
        ELSE /\ freed' = LogFree(freed, ArrPtr(r.r_old), -1, "free")
             /\ Step(t, [r EXCEPT !.pc = "return", !.ret = NULL])
             /\ UNCHANGED map_buckets
    /\ UNCHANGED <<epochVars, nodes, arrays, map_size, map_count,
                   hm_tls, ep_tls, myslot, nalloc, prog, uaf, oob>>

\* CAS(&map->buckets, old_buckets, new_buckets); on failure free(new_buckets)
RsCas(t) ==
    /\ At(t, "rs_cas")
    /\ LET r == th[t] IN
        IF map_buckets = r.r_old
        THEN /\ map_buckets' = r.r_new
             /\ Step(t, [r EXCEPT !.pc = "rs_store"])
             /\ UNCHANGED freed
        ELSE /\ freed' = LogFree(freed, ArrPtr(r.r_new), -1, "free")
             /\ Step(t, [r EXCEPT !.pc = "return", !.ret = NULL])
             /\ UNCHANGED map_buckets
    /\ UNCHANGED <<epochVars, nodes, arrays, map_size, map_count,
                   hm_tls, ep_tls, myslot, nalloc, prog, uaf, oob>>

\* store(&map->size, new_cap); then epoch_retire(&map->epoch, old_buckets)
RsStore(t) ==
    /\ At(t, "rs_store")
    /\ LET r == th[t] IN
        /\ map_size' = 2 * r.r_cap
        /\ Step(t, [r EXCEPT !.pc = "retire", !.rptr = ArrPtr(r.r_old),
                             !.rcont = "resize"])
    /\ UNCHANGED <<epochVars, nodes, arrays, map_buckets, map_count,
                   hm_tls, ep_tls, myslot, nalloc, prog, freed, uaf, oob>>

(***************************************************************************)
(* epoch_retire: epoch_retire_slot with epoch.c's thread-local slot.       *)
(***************************************************************************)
Retire(t) ==
    /\ At(t, "retire")
    /\ LET r == th[t]
           s == ep_tls[t]
           entry == [ptr |-> r.rptr, ep |-> global_epoch]
           r1 == [r EXCEPT !.rptr = <<>>, !.rcont = "none"]
           next == IF r.rcont = "find" THEN FindLoop(r1, nodes, r.prev, r.next)
                   ELSE IF r.rcont = "cycle" THEN [r1 EXCEPT !.pc = "cycle"]
                   ELSE [r1 EXCEPT !.pc = "return", !.ret = NULL]
       IN IF s \in Slots
          THEN /\ threads' = [threads EXCEPT
                    ![s].retire[global_epoch % EPOCH_COUNT] = <<entry>> \o @]
               /\ Step2(t, next, nodes, freed)
          ELSE \* no slot: the callback is called at once
               /\ Step2(t, next, nodes, LogFree(freed, r.rptr, global_epoch, "retire"))
               /\ UNCHANGED threads
    /\ UNCHANGED <<global_epoch, arrays, map_buckets, map_size, map_count,
                   hm_tls, ep_tls, myslot, prog, uaf, oob>>

(***************************************************************************)
(* The calls of epoch.h made directly, as epoch_test.c makes them.         *)
(***************************************************************************)
\* every other thread has been joined
Joined(t) == \A u \in Threads \ {t} : th[u].pc = "idle" /\ prog[u] = <<>>

\* int *p = malloc(sizeof(int)); *p = i: the object of thread t's call
\* with `left` calls still to make and i = j
Obj(t, left, j) == <<"obj", t, left, j>>

InvokeEpoch(t) ==
    /\ At(t, "idle")
    /\ prog[t] # <<>>
    /\ \E o \in Head(prog[t]) :
        /\ o.op \in EpochOps
        /\ prog' = [prog EXCEPT ![t] = Tail(@)]
        /\ IF o.op = "epoch_register"
           THEN th' = [th EXCEPT ![t] = [Call(t, o) EXCEPT
                                    !.pc = "reg_cas", !.sawfull = AllActive(threads)]]
           ELSE IF o.op = "epoch_unregister"
           THEN \* the slot of a worker is unregistered after pthread_join
                /\ o.val = t \/ (th[o.val].pc = "idle" /\ prog[o.val] = <<>>)
                /\ th' = [th EXCEPT ![t] =
                            IF myslot[o.val] \in Slots
                            THEN [Call(t, o) EXCEPT !.pc = "unreg_drain",
                                                    !.slot = myslot[o.val]]
                            ELSE Idle]
           ELSE \* a worker runs once its slot has been registered
                /\ myslot[t] \in Slots
                /\ th' = [th EXCEPT ![t] = [Call(t, o) EXCEPT !.pc = "enter_load",
                                                              !.slot = myslot[t]]]
    /\ UNCHANGED <<epochVars, mapVars, hm_tls, ep_tls, myslot, nalloc, hist,
                   freed, uaf, oob>>

\* the critical section of a cycle: val more objects to allocate and retire
Cycle(t) ==
    /\ At(t, "cycle")
    /\ LET r == th[t] IN
        IF r.val > 0
        THEN /\ Step(t, [r EXCEPT !.pc = "retire", !.rptr = Obj(t, Len(prog[t]), r.val),
                                  !.rcont = "cycle", !.val = r.val - 1])
             /\ nalloc' = [nalloc EXCEPT ![t] = @ + 1]
        ELSE /\ Step(t, [r EXCEPT !.pc = "exit"])
             /\ UNCHANGED nalloc
    /\ UNCHANGED <<epochVars, mapVars, hm_tls, ep_tls, myslot, prog, freed, uaf, oob>>

(***************************************************************************)
(* hashmap_destroy, called by one thread when every other thread has       *)
(* finished: epoch_destroy, the walk over the list, the bucket array.      *)
(***************************************************************************)
\* epoch_destroy: free_list on every list of every slot from slot s on
RECURSIVE epoch_destroy(_, _)
epoch_destroy(log, s) ==
    IF s >= EPOCH_MAX_THREADS THEN log
    ELSE epoch_destroy(free_list(log, AllRetired(s), "destroy"), s + 1)

\* the nodes that the loop of hashmap_destroy visits from n on
RECURSIVE Walk(_, _)
Walk(n, seen) ==
    IF n = NULL \/ n \in seen THEN <<>>
    ELSE <<[ptr |-> NodePtr(n), ep |-> -1]>> \o Walk(nodes[n].next, seen \cup {n})

\* hashmap_thread_register on a second map, whose slot table is not part of
\* the state: epoch_register returns any of its slots, or -1 when it is
\* full; the thread-local variables are those of the thread, whatever the map
RegisterOther(t) ==
    /\ At(t, "idle")
    /\ prog[t] # <<>>
    /\ Op("register_other", Zero64, NULL) \in Head(prog[t])
    /\ \E slot \in Slots \cup {NOSLOT} :
        /\ hm_tls' = [hm_tls EXCEPT ![t] = slot]
        /\ ep_tls' = [ep_tls EXCEPT ![t] = IF slot \in Slots THEN slot ELSE @]
    /\ prog' = [prog EXCEPT ![t] = Tail(@)]
    /\ UNCHANGED <<epochVars, mapVars, myslot, nalloc, th, hist, freed, uaf, oob>>

\* epoch_destroy called on an epoch_t of the caller's own
EpochDestroy(t) ==
    /\ At(t, "idle")
    /\ prog[t] # <<>>
    /\ Op("epoch_destroy", Zero64, NULL) \in Head(prog[t])
    /\ Joined(t)
    /\ freed' = epoch_destroy(freed, 0)
    /\ threads' = [s \in Slots |-> [threads[s] EXCEPT !.retire = EmptySlot.retire]]
    /\ prog' = [prog EXCEPT ![t] = Tail(@)]
    /\ UNCHANGED <<global_epoch, mapVars, hm_tls, ep_tls, myslot, nalloc, th, hist,
                   uaf, oob>>

hashmap_destroy(t) ==
    /\ At(t, "idle")
    /\ prog[t] # <<>>
    /\ Op("destroy", Zero64, NULL) \in Head(prog[t])
    /\ Joined(t)
    /\ map_buckets # NULL
    /\ LET drained == epoch_destroy(freed, 0)
           walk == Walk(nodes[HEAD].next, {HEAD})
           walked == free_list(drained, walk, "destroy")
       IN /\ freed' = LogFree(walked, ArrPtr(map_buckets), -1, "destroy")
          /\ uaf' = (uaf \/ \E i \in 1..Len(walk) : \E f \in drained : f.ptr = walk[i].ptr)
    /\ threads' = [s \in Slots |-> [threads[s] EXCEPT !.retire = EmptySlot.retire]]
    /\ map_buckets' = NULL
    /\ prog' = [prog EXCEPT ![t] = Tail(@)]
    /\ UNCHANGED <<global_epoch, nodes, arrays, map_size, map_count,
                   hm_tls, ep_tls, myslot, nalloc, th, hist, oob>>

(***************************************************************************)
(* The state after hashmap_create, and the next-state relation.            *)
(***************************************************************************)
Created ==
    /\ global_epoch = 0
    /\ threads = [s \in Slots |-> EmptySlot]
    /\ nodes = (HEAD :> Node(Zero64, Zero64, NULL, TRUE))
    /\ arrays = (ARR0 :> [Calloc(HASHMAP_INIT_CAP) EXCEPT ![1] = HEAD])
    /\ map_buckets = ARR0
    /\ map_size = HASHMAP_INIT_CAP
    /\ map_count = 0
    /\ hm_tls = [t \in Threads |-> NOSLOT]
    /\ ep_tls = [t \in Threads |-> NOSLOT]
    /\ myslot = [t \in Threads |-> NOSLOT]
    /\ nalloc = [t \in Threads |-> 0]
    /\ th = [t \in Threads |-> Idle]
    /\ hist = [t \in Threads |-> <<>>]
    /\ freed = {}
    /\ uaf = FALSE
    /\ oob = FALSE

\* hashmap_thread_register, epoch_enter and epoch_exit
Epoch(t) ==
    \/ Invoke(t)
    \/ RegCas(t) \/ RegLoad(t) \/ RegStore(t)
    \/ EnterLoad(t) \/ EnterStore(t) \/ AdvLoad(t) \/ AdvActive(t) \/ AdvEpoch(t)
    \/ AdvCas(t) \/ Exit(t)

\* the bucket lookup and list_find of every call, and a put of a new key
Common(t) ==
    \/ Epoch(t)
    \/ OpSize(t) \/ IbBuckets(t) \/ IbSize(t) \/ IbSlot(t)
    \/ OpBuckets(t) \/ OpSlot(t)
    \/ FindHead(t) \/ FindNext(t) \/ InsCas(t)
    \/ PutCount(t) \/ RsCount(t) \/ RsSize(t)

\* hashmap_remove finds the key
Delete(t) == DelValue(t) \/ DelNext(t) \/ DelMark(t) \/ DelUnlink(t) \/ RemCount(t)

\* maybe_resize above the threshold
Resize(t) == RsBuckets(t) \/ RsCopy(t) \/ RsCas(t) \/ RsStore(t) \/ Retire(t)

\* a retire list is freed by epoch_enter or try_reclaim
Reclaim(t) == AdvReclaim(t) \/ EnterReclaim(t)

Unregister(t) == UnregDrain(t) \/ UnregStore(t)

Next ==
    \E t \in Threads :
        \/ Common(t) \/ PutXchg(t) \/ GetLoad(t) \/ IbCas(t) \/ Delete(t) \/ Resize(t)
        \/ Reclaim(t) \/ Unregister(t) \/ FindUnlink(t) \/ InsStore(t)
        \/ InvokeEpoch(t) \/ Cycle(t) \/ EpochDestroy(t) \/ hashmap_destroy(t)
        \/ RegisterOther(t)

(***************************************************************************)
(* Programs.  A program is a sequence of sets of calls: the thread makes   *)
(* one call of each set, in order.                                         *)
(***************************************************************************)
Reg == {Op("register", Zero64, NULL)}

Unreg == {Op("unregister", Zero64, NULL)}

Put(k, v) == {Op("put", k, v)}

Get(k) == {Op("get", k, NULL)}

Remove(k) == {Op("remove", k, NULL)}

NoProg == [t \in Threads |-> <<>>]

(***************************************************************************)
(* SpecMT: two registered threads with a key each.  The second thread's    *)
(* put takes the count to the threshold, so that it resizes and retires    *)
(* the old bucket array, and then unregisters, while the first thread is   *)
(* still making its calls.                                                 *)
(***************************************************************************)
ProgMT ==
    [NoProg EXCEPT ![1] = <<Reg, Put(K3, 1), Get(K3)>>,
                   ![2] = <<Reg, Put(K4, 2), Unreg>>]

InitMT == Created /\ prog = ProgMT

NextMT ==
    \E t \in Threads :
        \/ Common(t) \/ GetLoad(t) \/ IbCas(t) \/ Resize(t) \/ Unregister(t)

SpecMT == InitMT /\ [][NextMT]_vars

\* the free callback has been invoked on a retired pointer
Reclaimed == {f \in freed : f.by # "free"}

\* C2: no thread reads a list node or a bucket array after the free callback
\* has been invoked on it, in any interleaving of put, get, resize and
\* unregister by registered threads.
C2_NoReadAfterFree == ~uaf

\* C3: a pointer retired when the global epoch was E is passed to the free
\* callback only when the global epoch is at least E + 2, on every path that
\* frees retired pointers (enter, try_advance, unregister, retire).
C3_FreedTwoEpochsLater == \A f \in Reclaimed : f.at >= f.ep + 2

(***************************************************************************)
(* SpecDisjoint: the workload of mt_worker with two threads and one key    *)
(* per thread, the keys being the two whose hashes differ in bit 63 only.  *)
(* The first thread is followed up to its get, the second up to its put.   *)
(***************************************************************************)
ProgDisjoint ==
    [NoProg EXCEPT ![1] = <<Reg, Put(K1, 1), Get(K1)>>,
                   ![2] = <<Reg, Put(KX, 2)>>]

InitDisjoint == Created /\ prog = ProgDisjoint

NextDisjoint == \E t \in Threads : Common(t) \/ GetLoad(t) \/ IbCas(t) \/ Resize(t)

SpecDisjoint == InitDisjoint /\ [][NextDisjoint]_vars

\* the calls of thread t on key k before its n-th call, other than gets
Writes(t, n, k) ==
    {i \in 1..(n - 1) : /\ hist[t][i].key = k
                        /\ \/ hist[t][i].op = "remove"
                           \/ hist[t][i].op = "put" /\ hist[t][i].val # NULL}

Max(S) == CHOOSE x \in S : \A y \in S : y <= x

\* the value thread t has put for k and not removed before its n-th call,
\* NULL if there is none
OwnValue(t, n, k) ==
    LET w == Writes(t, n, k) IN
    IF w = {} \/ hist[t][Max(w)].op = "remove" THEN NULL ELSE hist[t][Max(w)].val

\* every thread has made all its calls
Finished == \A t \in Threads : prog[t] = <<>> /\ th[t].pc = "idle"

\* C4: with a key range per thread, disjoint from the others', every get of
\* a key the thread has put and not yet removed returns the value it put,
\* and the count is 0 once every thread has removed the keys it has put.
C4_DisjointRanges ==
    /\ \A t \in Threads : \A n \in 1..Len(hist[t]) :
            LET h == hist[t][n] IN
            (h.op = "get" /\ h.done /\ OwnValue(t, n, h.key) # NULL)
                => h.ret = OwnValue(t, n, h.key)
    /\ (Finished /\ \A t \in Threads : \A n \in 1..Len(hist[t]) :
            OwnValue(t, Len(hist[t]) + 1, hist[t][n].key) = NULL)
         => map_count = 0

(***************************************************************************)
(* SpecLin: one thread puts a key and puts it again, another removes it.   *)
(***************************************************************************)
ProgLin ==
    [NoProg EXCEPT ![1] = <<Reg, Put(K3, 1), Put(K3, 2)>>,
                   ![2] = <<Reg, Remove(K3)>>]

InitLin == Created /\ prog = ProgLin

NextLin ==
    \E t \in Threads :
        \/ Common(t) \/ PutXchg(t) \/ Delete(t) \/ FindUnlink(t) \/ Resize(t)

SpecLin == InitLin /\ [][NextLin]_vars

\* the map calls made so far, each named by its thread and its number
Calls == {c \in Threads \X (1..PoolSize) : c[2] <= Len(hist[c[1]])}

CallOf(c) == hist[c[1]][c[2]]

\* the total orders of the calls
Orders == {o \in [1..Cardinality(Calls) -> Calls] :
                \A i, j \in DOMAIN o : i # j => o[i] # o[j]}

\* no call is ordered before one that had returned when it was made
RealTime(o) == \A i, j \in DOMAIN o : i < j => o[j] \notin CallOf(o[i]).prior

\* a sequential map m (NULL for an absent key) gives the calls o[i], o[i+1],
\* ... the results they have returned
RECURSIVE Legal(_, _, _)
Legal(o, i, m) ==
    IF i > Len(o) THEN TRUE
    ELSE LET h == CallOf(o[i]) IN
         /\ h.ret = m[h.key]
         /\ Legal(o, i + 1, CASE h.op = "put" -> [m EXCEPT ![h.key] = h.val]
                              [] h.op = "remove" -> [m EXCEPT ![h.key] = NULL]
                              [] OTHER -> m)

EmptyMap == [k \in KeySpace |-> NULL]

\* C1: every history of get, put and remove calls by registered threads is
\* linearizable: some total order of the calls, consistent with their
\* real-time order, gives every call the result of a sequential map.
C1_Linearizable ==
    Finished => \E o \in Orders : RealTime(o) /\ Legal(o, 1, EmptyMap)

(***************************************************************************)
(* SpecSeq: one registered thread makes five calls, each one of a few:     *)
(* puts, gets and removes of key 1 and of the key with the same so_key,    *)
(* and puts of key 0 and of a null value.                                  *)
(***************************************************************************)
ProgSeq ==
    [NoProg EXCEPT ![1] =
        <<Reg,
          Put(K1, 1) \cup Put(KX, 2),
          Put(KX, 2) \cup Put(K1, 2) \cup Put(Zero64, 1) \cup Put(K1, NULL),
          Get(K1) \cup Put(K1, 3) \cup Remove(K1) \cup Remove(KX),
          Get(K1) \cup Remove(KX) \cup Put(Zero64, 1),
          Remove(K1) \cup Get(K1)>>]

InitSeq == Created /\ prog = ProgSeq

NextSeq ==
    \E t \in Threads :
        \/ Common(t) \/ PutXchg(t) \/ GetLoad(t) \/ IbCas(t) \/ Delete(t)
        \/ Resize(t) \/ AdvReclaim(t)

SpecSeq == InitSeq /\ [][NextSeq]_vars

\* the n-th call of thread t is a put that hashmap_put does not reject
IsPut(t, n) ==
    hist[t][n].op = "put" /\ hist[t][n].key # Zero64 /\ hist[t][n].val # NULL

\* thread t makes no call on key k between its calls i and j
NoneBetween(t, i, j, k) == \A m \in (i + 1)..(j - 1) : hist[t][m].key # k

\* thread t's calls i and j are calls on one key, both have returned, and
\* the thread has made no other call on that key in between
Successive(t, i, j) ==
    /\ i < j
    /\ hist[t][i].done /\ hist[t][j].done
    /\ hist[t][i].key = hist[t][j].key
    /\ NoneBetween(t, i, j, hist[t][i].key)

\* the get that follows call j of thread t on its key, if there is one,
\* has returned v
FollowingGet(t, j, v) ==
    \A g \in 1..Len(hist[t]) :
        (Successive(t, j, g) /\ hist[t][g].op = "get") => hist[t][g].ret = v

\* the pairs of calls of a thread
Pairs == {c \in Calls \X (1..PoolSize) : c[2] <= Len(hist[c[1][1]])}

\* C5: for k # 0 and v # null, once put(k, v) has returned, a subsequent
\* get(k) on the same thread, with no other operation on k in between,
\* returns v, whatever calls came before.
C5_GetAfterPut ==
    \A c \in Pairs :
        LET t == c[1][1]  i == c[1][2]  j == c[2] IN
        (Successive(t, i, j) /\ IsPut(t, i) /\ hist[t][j].op = "get")
            => hist[t][j].ret = hist[t][i].val

\* C6: if a thread calls put(k, v1) and then put(k, v2), the second call
\* returns v1, a following get(k) returns v2, and the count is the same
\* after the second put as before it.
C6_PutAfterPut ==
    \A c \in Pairs :
        LET t == c[1][1]  i == c[1][2]  j == c[2] IN
        (Successive(t, i, j) /\ IsPut(t, i) /\ IsPut(t, j))
            => /\ hist[t][j].ret = hist[t][i].val
               /\ hist[t][j].cnt1 = hist[t][j].cnt0
               /\ FollowingGet(t, j, hist[t][j].val)

\* C7: after put(k, v) followed by remove(k) on the same thread, the remove
\* returns v, a following get(k) returns null, and the count is one less
\* than before the remove.
C7_RemoveAfterPut ==
    \A c \in Pairs :
        LET t == c[1][1]  i == c[1][2]  j == c[2] IN
        (Successive(t, i, j) /\ IsPut(t, i) /\ hist[t][j].op = "remove")
            => /\ hist[t][j].ret = hist[t][i].val
               /\ hist[t][j].cnt1 = hist[t][j].cnt0 - 1
               /\ FollowingGet(t, j, NULL)

\* the keys and values in kv other than those of key k
Others(kv, k) == {e \in kv : e[1] # k}

\* C8: remove(k) of a key that is absent (never put, or removed since it
\* was last put) returns null and leaves the count and the value of every
\* other key unchanged.
C8_RemoveAbsent ==
    \A c \in Calls :
        LET t == c[1]  j == c[2]  h == hist[c[1]][c[2]] IN
        (h.op = "remove" /\ h.done /\ OwnValue(t, j, h.key) = NULL)
            => /\ h.ret = NULL
               /\ h.cnt1 = h.cnt0
               /\ Others(h.kv1, h.key) = Others(h.kv0, h.key)

\* thread t makes a call put(0, v) or put(k, null) in this step
RejectedPut(t) ==
    /\ Len(hist'[t]) = Len(hist[t]) + 1
    /\ LET h == hist'[t][Len(hist'[t])] IN
        h.op = "put" /\ (h.key = Zero64 \/ h.val = NULL)

\* C9: put(0, v) and put(k, null) return null without any side effect: the
\* count, the list, the bucket array, the capacity and the epoch state are
\* all unchanged.
C9_RejectedPut ==
    [][\A t \in Threads :
        RejectedPut(t) =>
            /\ hist'[t][Len(hist'[t])].done
            /\ hist'[t][Len(hist'[t])].ret = NULL
            /\ th'[t].pc = "idle"
            /\ UNCHANGED <<map_count, nodes, arrays, map_buckets, map_size,
                           global_epoch, threads>>]_vars

\* a thread has made both a put of key 0 and a put of a null value on a map
\* that holds a key, and both have returned
C9_Witness ==
    \E c \in Pairs :
        LET t == c[1][1]  i == c[1][2]  j == c[2]  IN
        /\ hist[t][i].op = "put" /\ hist[t][i].val = NULL /\ hist[t][i].key # Zero64
        /\ hist[t][j].op = "put" /\ hist[t][j].key = Zero64 /\ hist[t][j].val # NULL
        /\ hist[t][i].done /\ hist[t][j].done
        /\ hist[t][i].cnt0 > 0 /\ hist[t][j].cnt0 > 0

(***************************************************************************)
(* SpecGrow: concurrent puts of new keys.  Three keys take the count past  *)
(* the threshold of the initial capacity and of its double.                *)
(***************************************************************************)
ProgGrow ==
    [NoProg EXCEPT ![1] = <<Reg, Put(K3, 1)>>,
                   ![2] = <<Reg, Put(K4, 2), Put(K2, 2)>>]

InitGrow == Created /\ prog = ProgGrow

NextGrow == \E t \in Threads : Common(t) \/ IbCas(t) \/ Resize(t)

SpecGrow == InitGrow /\ [][NextGrow]_vars

\* C10: the published capacity never decreases: every change to it, in any
\* interleaving of concurrent puts and the resizes they trigger, is a growth.
C10_CapacityGrows == [][map_size' >= map_size]_vars

(***************************************************************************)
(* Unlinked nodes and the pointers handed to epoch_retire.                 *)
(***************************************************************************)
\* the nodes that a traversal from n reaches, added to seen
RECURSIVE ReachFrom(_, _)
ReachFrom(n, seen) ==
    IF n = NULL \/ n \in seen THEN seen ELSE ReachFrom(nodes[n].next, seen \cup {n})

\* the nodes linked in the global list
Linked == ReachFrom(HEAD, {})

\* the nodes that were linked, have been marked as deleted and unlinked
UnlinkedNodes == {n \in DOMAIN nodes : nodes[n].mark /\ n \notin Linked}

\* the pointers on the retire lists
Pending ==
    {threads[s].retire[j][i].ptr :
        <<s, j, i>> \in {x \in Slots \X (0..(EPOCH_COUNT - 1)) \X (1..PoolSize) :
                            x[3] <= Len(threads[x[1]].retire[x[2]])}}

\* the pointers a thread is handing to epoch_retire
BeingRetired == {th[t].rptr : t \in {x \in Threads : th[x].pc = "retire"}}

\* the pointers passed to the free callback by epoch.c
WasReclaimed == {f.ptr : f \in Reclaimed}

\* C11: every list node that is physically unlinked from the global list,
\* by a traversal that cleans up a marked node or by remove's own unlink,
\* is retired to EBR at the moment it is unlinked.
C11_UnlinkedIsRetired ==
    \A n \in UnlinkedNodes : NodePtr(n) \in BeingRetired \cup Pending \cup WasReclaimed

(***************************************************************************)
(* SpecDestroy: one thread puts and removes, unregisters and destroys the  *)
(* map.                                                                    *)
(***************************************************************************)
DestroyOp == {Op("destroy", Zero64, NULL)}

ProgDestroy ==
    [NoProg EXCEPT ![1] = <<Reg, Put(K3, 1) \cup Put(K1, 1),
                            Put(K4, 2) \cup Put(K3, 2) \cup Remove(K3),
                            Remove(K3) \cup Remove(K4) \cup Get(K3),
                            Unreg, DestroyOp>>]

InitDestroy == Created /\ prog = ProgDestroy

NextDestroy ==
    \E t \in Threads :
        \/ Common(t) \/ PutXchg(t) \/ GetLoad(t) \/ IbCas(t) \/ Delete(t) \/ Resize(t)
        \/ Unregister(t) \/ hashmap_destroy(t)

SpecDestroy == InitDestroy /\ [][NextDestroy]_vars

\* hashmap_destroy has returned
Destroyed == map_buckets = NULL

\* the nodes that node_alloc has returned
Allocated == DOMAIN nodes \ {HEAD}

\* C12: after all threads have finished their operations and unregistered
\* and hashmap_destroy has run, every node ever allocated by the map has
\* been freed exactly once.
C12_AllNodesFreedOnce ==
    Destroyed => \A n \in Allocated : FreeCount(freed, NodePtr(n)) = 1

(***************************************************************************)
(* SpecQuiesce: two threads register, put a key each (the second put       *)
(* resizes and retires the old bucket array) and unregister.               *)
(***************************************************************************)
ProgQuiesce ==
    [NoProg EXCEPT ![1] = <<Reg, Put(K3, 1), Unreg>>,
                   ![2] = <<Reg, Put(K4, 2), Unreg>>]

InitQuiesce == Created /\ prog = ProgQuiesce

NextQuiesce ==
    \E t \in Threads : Common(t) \/ Resize(t) \/ Unregister(t)

SpecQuiesce == InitQuiesce /\ [][NextQuiesce]_vars

\* no operation is in progress and no slot is held by a registered thread
Quiescent ==
    /\ \A t \in Threads : th[t].pc = "idle"
    /\ \A s \in Slots : ~threads[s].active

ValuesOf(kv, k) == {p[2] : p \in {q \in kv : q[1] = k}}

\* both keys of the colliding pair are present in the contents kv
BothPresent(kv) == ValuesOf(kv, K1) # {} /\ ValuesOf(kv, KX) # {}

\* the call c acted on the node of its own key
ActsOnOwnKey(c) ==
    LET old == ValuesOf(c.kv0, c.key) IN
    /\ c.op = "get" => c.ret \in old /\ c.kv1 = c.kv0
    /\ c.op = "put" => /\ c.ret \in old
                       /\ c.kv1 = Others(c.kv0, c.key) \cup {<<c.key, c.val>>}
                       /\ c.cnt1 = c.cnt0
    /\ c.op = "remove" => /\ c.ret \in old
                          /\ c.kv1 = Others(c.kv0, c.key)
                          /\ c.cnt1 = c.cnt0 - 1

\* C14: when two distinct keys have the same split-ordered key and both are
\* present, get(k) returns k's value, put(k, v) updates k's node and returns
\* its prior value without adding a node, and remove(k) removes k, whatever
\* the order in which the two keys were inserted.
C14_SameSoKeyExactMatch ==
    \A n \in 1..Len(hist[1]) :
        LET c == hist[1][n] IN
        (c.done /\ c.key \in {K1, KX} /\ ~Rejected(c) /\ BothPresent(c.kv0))
            => ActsOnOwnKey(c)

(***************************************************************************)
(* SpecMany: one thread puts distinct keys across two capacity doublings   *)
(* (2 to 4 at the second put, 4 to 8 at the third), gets them and removes  *)
(* some of them.                                                           *)
(***************************************************************************)
ProgMany ==
    [NoProg EXCEPT ![1] =
        <<Reg, Put(K3, 1), Put(K4, 2), Put(K2, 3) \cup Get(K3) \cup Get(K4),
          Put(K1, 4) \cup Get(K4) \cup Get(K2),
          Put(KX, 5) \cup Get(K3) \cup Get(K1) \cup Remove(K4),
          Get(K1) \cup Get(KX) \cup Get(K2) \cup Remove(K3) \cup Remove(K1),
          Get(K1) \cup Get(K3) \cup Get(K4) \cup Remove(K2)>>]

InitMany == Created /\ prog = ProgMany

NextMany ==
    \E t \in Threads :
        \/ Common(t) \/ GetLoad(t) \/ IbCas(t) \/ Delete(t) \/ Resize(t) \/ AdvReclaim(t)

SpecMany == InitMany /\ [][NextMany]_vars

\* the keys thread t has put and not removed before its n-th call
OwnKeys(t, n) == {k \in KeySpace : OwnValue(t, n, k) # NULL}

\* C15: for a single thread inserting distinct keys across capacity
\* doublings, every get returns the value last put for its key (null when
\* the key was removed or never put), before and after each resize, and
\* after every call the count is the number of keys put and not removed.
C15_GrowthPreservesContents ==
    \A n \in 1..Len(hist[1]) :
        LET c == hist[1][n] IN
        c.done => /\ c.op = "get" => c.ret = OwnValue(1, n, c.key)
                  /\ c.cnt1 = Cardinality(OwnKeys(1, n + 1))

(***************************************************************************)
(* SpecReg: three threads and a table of two slots.  Two threads register  *)
(* and unregister, the third registers.                                    *)
(***************************************************************************)
ProgReg ==
    [NoProg EXCEPT ![1] = <<Reg, Unreg>>, ![2] = <<Reg, Unreg>>, ![3] = <<Reg>>]

InitReg == Created /\ prog = ProgReg

NextReg ==
    \E t \in Threads :
        Invoke(t) \/ RegCas(t) \/ RegLoad(t) \/ RegStore(t) \/ Unregister(t)

SpecReg == InitReg /\ [][NextReg]_vars

\* thread t's call of register returns the failure value with this step
RegisterFails(t) == th[t].pc = "reg_cas" /\ th'[t].pc = "idle"

\* thread t's call of register takes a slot with this step
RegisterTakes(t) == th[t].pc = "reg_cas" /\ th'[t].pc = "reg_load"

\* thread t's call of register returns a slot index with this step
RegisterReturns(t) == th[t].pc = "reg_store" /\ th'[t].pc = "idle"

\* C16: register returns the negative failure value, and changes no slot,
\* only when all slots were held by registered threads at some moment of
\* the call; otherwise it returns the index of a slot that was inactive and
\* is now active.
C16_RegisterResult ==
    [][\A t \in Threads :
        /\ RegisterFails(t) => /\ th[t].sawfull
                               /\ threads' = threads
                               /\ myslot'[t] = NOSLOT
        /\ RegisterTakes(t) => /\ ~threads[th[t].i].active
                               /\ threads'[th[t].i].active
        /\ RegisterReturns(t) => /\ myslot'[t] = th[t].i
                                 /\ threads'[th[t].i].active]_vars

(***************************************************************************)
(* SpecEbr: one registered thread on an epoch_t of its own: critical       *)
(* sections that retire up to two objects, then five that retire nothing.  *)
(***************************************************************************)
EReg(u) == {Op("epoch_register", Zero64, u)}

EUnreg(u) == {Op("epoch_unregister", Zero64, u)}

Cycles(counts) == {Op("cycle", Zero64, k) : k \in counts}

ProgEbr ==
    [NoProg EXCEPT ![1] = <<EReg(1), Cycles({0, 1, 2}), Cycles({0, 1, 2}), Cycles({0, 1}),
                            Cycles({0}), Cycles({0}), Cycles({0}), Cycles({0}),
                            Cycles({0})>>]

InitEbr == Created /\ prog = ProgEbr

NextEbr ==
    \E t \in Threads :
        \/ InvokeEpoch(t) \/ RegCas(t) \/ RegLoad(t) \/ RegStore(t)
        \/ EnterLoad(t) \/ EnterStore(t) \/ AdvLoad(t) \/ AdvActive(t) \/ AdvEpoch(t)
        \/ AdvCas(t) \/ AdvReclaim(t) \/ Cycle(t) \/ Retire(t) \/ Exit(t)

SpecEbr == InitEbr /\ [][NextEbr]_vars

\* the objects that have been handed to epoch_retire
RetiredObjs == {p \in Pending \cup {f.ptr : f \in freed} : p[1] = "obj"}

\* the enter/exit cycles that the thread of object p has completed since the
\* call that retired p
FurtherCycles(p) ==
    p[3] - Len(prog[p[2]]) - (IF th[p[2]].pc = "idle" THEN 0 ELSE 1)

\* C17: with exactly one registered thread, every pointer the thread retires
\* inside a critical section has been passed to the free callback by the
\* time the thread has completed 5 further enter/exit cycles, with no
\* unregister and no destroy.
C17_FreedWithinFiveCycles ==
    \A p \in RetiredObjs : FurtherCycles(p) >= 5 => IsFreed(p)

\* an object has been freed by the cycles and 5 cycles have followed it
C17_Witness ==
    \E f \in freed : /\ f.ptr[1] = "obj"
                     /\ f.by \in {"try_advance", "enter"}
                     /\ FurtherCycles(f.ptr) >= 5

(***************************************************************************)
(* SpecEbrMT: two workers run enter / retire / exit loops on an epoch_t,   *)
(* either on slots that the main thread has registered for them and        *)
(* unregisters after joining them, as in test_multithreaded_epoch, or on   *)
(* slots they register and unregister themselves; the main thread then     *)
(* calls epoch_destroy.                                                    *)
(***************************************************************************)
EDestroy == {Op("epoch_destroy", Zero64, NULL)}

ProgEbrMain ==
    [NoProg EXCEPT ![1] = <<Cycles({1}), Cycles({1})>>,
                   ![2] = <<Cycles({1}), Cycles({1})>>,
                   ![3] = <<EReg(1), EReg(2), EUnreg(1), EUnreg(2), EReg(3),
                            Cycles({0}), EUnreg(3), EDestroy>>]

ProgEbrSelf ==
    [NoProg EXCEPT ![1] = <<EReg(1), Cycles({1}), Cycles({1}), EUnreg(1)>>,
                   ![2] = <<EReg(2), Cycles({1}), Cycles({1}), EUnreg(2)>>,
                   ![3] = <<EDestroy>>]

InitEbrMT == Created /\ prog \in {ProgEbrMain, ProgEbrSelf}

NextEbrMT ==
    \E t \in Threads :
        \/ InvokeEpoch(t) \/ RegCas(t) \/ RegLoad(t) \/ RegStore(t)
        \/ EnterLoad(t) \/ EnterStore(t) \/ AdvLoad(t) \/ AdvActive(t) \/ AdvEpoch(t)
        \/ AdvCas(t) \/ Reclaim(t) \/ Cycle(t) \/ Retire(t) \/ Exit(t)
        \/ Unregister(t) \/ EpochDestroy(t)

SpecEbrMT == InitEbrMT /\ [][NextEbrMT]_vars

\* the number of objects that the threads 1..n have allocated and retired
RECURSIVE Retires(_)
Retires(n) == IF n = 0 THEN 0 ELSE nalloc[n] + Retires(n - 1)

\* the calls of the free callback on objects
ObjFrees == {f \in freed : f.ptr[1] = "obj"}

\* C18: when several threads concurrently run enter / retire / exit loops
\* on slots registered for them, then after all of them have finished,
\* their slots are unregistered and destroy has run, the free callback has
\* been invoked exactly once for each retired pointer: the number of frees
\* equals the number of retires.
C18_FreesEqualRetires ==
    Finished => /\ Cardinality(ObjFrees) = Retires(NThreads)
                /\ \A f \in ObjFrees : f.n = 1

\* the workers have finished, an object went through a retire list and one
\* was freed by the drain of unregister
C18_Witness ==
    /\ Finished
    /\ \E f \in ObjFrees : f.by = "unregister"
    /\ \E f \in ObjFrees : f.by \in {"try_advance", "enter"}

(***************************************************************************)
(* SpecTwoMaps: a thread registers with the map, then with a second map,   *)
(* and goes on using the first.                                            *)
(***************************************************************************)
RegOther == {Op("register_other", Zero64, NULL)}

ProgTwoMaps ==
    [NoProg EXCEPT ![1] = <<Reg, RegOther, Put(K3, 1) \cup Get(K3), Get(K3)>>]

InitTwoMaps == Created /\ prog = ProgTwoMaps

NextTwoMaps ==
    \E t \in Threads : Common(t) \/ GetLoad(t) \/ RegisterOther(t)

SpecTwoMaps == InitTwoMaps /\ [][NextTwoMaps]_vars

\* C19: a thread's registration slot is kept per map: after the thread has
\* registered with this map and then with another, its operations on this
\* map still use the slot that this map's registration returned.
C19_SlotPerMap ==
    \A t \in Threads : th[t].op \in MapOps => th[t].slot = myslot[t]

(***************************************************************************)
(* SpecLive: two threads put and remove the same key.  A thread may be     *)
(* stopped for good at any point; a thread that is not stopped keeps       *)
(* taking steps.                                                           *)
(***************************************************************************)
ProgLive ==
    [NoProg EXCEPT ![1] = <<Reg, Put(K3, 1), Remove(K3)>>,
                   ![2] = <<Reg, Put(K3, 2)>>]

InitLive == Created /\ prog = ProgLive

\* the scheduler never runs thread t, which is inside put, get or remove,
\* again
Stop(t) ==
    /\ th[t].op \in MapOps
    /\ th[t].pc \notin {"idle", "stopped"}
    /\ th' = [th EXCEPT ![t].pc = "stopped"]
    /\ UNCHANGED <<epochVars, mapVars, hm_tls, ep_tls, myslot, nalloc, prog, hist,
                   freed, uaf, oob>>

\* the steps of thread t
Run(t) ==
    \/ Common(t) \/ PutXchg(t) \/ Delete(t) \/ FindUnlink(t) \/ Resize(t) \/ InsStore(t)

\* the threads that make calls
Callers == {t \in Threads : ProgLive[t] # <<>>}

NextLive == \E t \in Callers : Run(t) \/ Stop(t)

SpecLive == InitLive /\ [][NextLive]_vars /\ \A t \in Callers : WF_vars(Run(t))

\* thread t is inside a call of put, get or remove and has not been stopped
InCall(t) == th[t].op \in MapOps /\ th[t].pc \notin {"idle", "stopped"}

\* C20: every call of put, get and remove made by a thread that keeps
\* taking steps returns, whether the other threads keep running or are
\* stopped at arbitrary points.
C20_CallsReturn ==
    \A t \in Callers : InCall(t) ~> ~InCall(t)

\* thread 1 has returned from its remove while thread 2 is stopped inside
\* its put
C20_Witness ==
    /\ prog[1] = <<>> /\ th[1].pc = "idle"
    /\ th[2].pc = "stopped" /\ th[2].op = "put"

(***************************************************************************)
(* SpecLate: the first thread puts two keys; the second puts a third,      *)
(* which takes the count to the threshold, resizes, retires the old bucket *)
(* array and unregisters while the first is inside its second put.         *)
(***************************************************************************)
ProgLate ==
    [NoProg EXCEPT ![1] = <<Reg, Put(K2, 1), Put(K3, 1)>>,
                   ![2] = <<Reg, Put(K4, 2), Unreg>>]

InitLate == Created /\ prog = ProgLate

NextLate ==
    \E t \in Threads : Common(t) \/ IbCas(t) \/ Resize(t) \/ Unregister(t)

SpecLate == InitLate /\ [][NextLate]_vars

(***************************************************************************)
(* The shape of the global list.                                           *)
(***************************************************************************)
\* a traversal from n never comes back to a node of seen or to one it has
\* visited
RECURSIVE NoCycle(_, _)
NoCycle(n, seen) ==
    n = NULL \/ (n \notin seen /\ NoCycle(nodes[n].next, seen \cup {n}))

\* the pairs a -> b of adjacent linked nodes, neither marked as deleted
AdjacentUnmarked ==
    {<<a, nodes[a].next>> :
        a \in {x \in Linked : /\ nodes[x].next # NULL
                              /\ ~nodes[x].mark
                              /\ ~nodes[nodes[x].next].mark}}

\* C21: in every reachable state the nodes reachable from the head are
\* acyclic and for any two adjacent unmarked nodes a -> b,
\* a.so_key <= b.so_key.
C21_SortedAcyclic ==
    /\ NoCycle(HEAD, {})
    /\ \A p \in AdjacentUnmarked : U64Leq(nodes[p[1]].so_key, nodes[p[2]].so_key)


(***************************************************************************)
(* Buckets and their dummy nodes.                                          *)
(***************************************************************************)
\* the nodes that a traversal from n meets, in the order it meets them
RECURSIVE ListFrom(_, _)
ListFrom(n, seen) ==
    IF n = NULL \/ n \in seen THEN <<>>
    ELSE <<n>> \o ListFrom(nodes[n].next, seen \cup {n})

\* node a occurs in the global list before node b
Before(a, b) ==
    LET l == ListFrom(HEAD, {}) IN
    \E i, j \in 1..Len(l) : i < j /\ l[i] = a /\ l[j] = b

\* the slots of the installed array
Installed == arrays[map_buckets]

\* the buckets whose slot is not null
Initialized == {b \in 0..(Len(Installed) - 1) : Installed[b + 1] # NULL}

\* the unmarked regular nodes of the list whose key maps to bucket b under
\* the current capacity
Regulars(b) ==
    {n \in Linked : /\ ~nodes[n].is_dummy
                    /\ ~nodes[n].mark
                    /\ MaskCap(HashOf[nodes[n].key], map_size) = b}

\* C22: for every bucket b whose slot is non-null, the node the slot points
\* at occurs in the global list before every unmarked regular node whose key
\* maps to bucket b under the current capacity, before and after any resize.
C22_DummyBeforeRegulars ==
    \A b \in Initialized : \A n \in Regulars(b) : Before(Installed[b + 1], n)

\* at capacity 8 the slot of bucket 4 points at a dummy that was inserted
\* after a key of the bucket, which was put when the capacity was 2
C22_Witness ==
    /\ map_size = 8
    /\ 4 \in Initialized
    /\ \E n \in Regulars(4) : nodes[n].key = K4

\* the dummy nodes of the list
LinkedDummies == {n \in Linked : nodes[n].is_dummy}

\* slot b of the installed array points at the dummy of bucket b, which is
\* in the list
PointsAtDummy(b) ==
    LET n == Installed[b + 1] IN
    /\ n \in LinkedDummies
    /\ nodes[n].so_key = make_so_dummy(b)
    /\ b = 0 => n = HEAD

\* C23: when threads race to initialize buckets, also while the table is
\* resized, the list holds at most one dummy node per bucket index, and
\* every non-null slot b of the installed array points at the dummy whose
\* so_key is reverse_bits(b), slot 0 at the head.
C23_OneDummyPerBucket ==
    /\ \A a, c \in LinkedDummies : nodes[a].so_key = nodes[c].so_key => a = c
    /\ \A b \in Initialized : PointsAtDummy(b)

\* C24: in every reachable state, the window between the installation of a
\* new array and the publication of its capacity and concurrent resizes
\* included, the installed bucket array has at least as many slots as the
\* published capacity.
C24_ArrayCoversCapacity == Len(Installed) >= map_size

(***************************************************************************)
(* The global epoch.                                                       *)
(***************************************************************************)
\* the active slots whose published epoch is behind e
Laggards(e) == {s \in Slots : threads[s].active /\ Behind(threads[s].epoch, e)}

\* C25: the global epoch never decreases and changes only by +1, and at
\* the moment it is advanced from g to g + 1 no active slot has published
\* an epoch below g (an epoch other than UINT64_MAX).
C25_EpochAdvance ==
    [][global_epoch' # global_epoch =>
            /\ global_epoch' = global_epoch + 1
            /\ Laggards(global_epoch) = {}]_vars

(***************************************************************************)
(* The bucket arrays of concurrent resizes.                                *)
(***************************************************************************)
\* a maybe_resize has allocated array a and has not yet tried to install it
Building(a) == \E t \in Threads : th[t].pc \in {"rs_copy", "rs_cas"} /\ th[t].r_new = a

\* a maybe_resize that lost the CAS has freed array a
Discarded(a) == \E f \in freed : f.ptr = ArrPtr(a) /\ f.by = "free"

\* the arrays that were installed and have been replaced
ReplacedArrays ==
    {a \in DOMAIN arrays : a # map_buckets /\ ~Building(a) /\ ~Discarded(a)}

\* the number of times array a is on a retire list
Listed(a) ==
    Cardinality({x \in Slots \X (0..(EPOCH_COUNT - 1)) \X (1..PoolSize) :
                    /\ x[3] <= Len(threads[x[1]].retire[x[2]])
                    /\ threads[x[1]].retire[x[2]][x[3]].ptr = ArrPtr(a)})

\* the number of times array a has been handed to epoch_retire, the calls
\* that the winner of a CAS is about to make included
Retirements(a) ==
    Cardinality({t \in Threads : th[t].pc = "rs_store" /\ th[t].r_old = a})
        + Cardinality({t \in Threads : th[t].pc = "retire" /\ th[t].rptr = ArrPtr(a)})
        + Listed(a)
        + Cardinality({f \in freed : f.ptr = ArrPtr(a) /\ f.by # "free"})

\* thread t's CAS on map->buckets fails in this step
LosesCas(t) ==
    th[t].pc = "rs_cas" /\ th'[t].pc # "rs_cas" /\ map_buckets # th[t].r_old

ProgSame ==
    [NoProg EXCEPT ![1] = <<Reg, Put(K3, 1)>>, ![2] = <<Reg, Put(K3, 2)>>]

InitSame == Created /\ prog = ProgSame

NextSame == \E t \in Threads : Common(t) \/ PutXchg(t) \/ InsStore(t)

SpecSame == InitSame /\ [][NextSame]_vars

\* the unmarked regular nodes of the list with key k
NodesOf(k) == {n \in Linked : ~nodes[n].is_dummy /\ ~nodes[n].mark /\ nodes[n].key = k}

\* C27: of two concurrent puts of the same absent key exactly one returns
\* null and the other returns the value the first has put; one node for the
\* key is linked and the count has grown by one.
C27_SameKeyPuts ==
    Finished =>
        LET a == hist[1][1]
            b == hist[2][1]
        IN /\ \/ a.ret = NULL /\ b.ret = a.val
              \/ b.ret = NULL /\ a.ret = b.val
           /\ Cardinality(NodesOf(K3)) = 1
           /\ map_count = 1

(***************************************************************************)
(* A put and a remove of a key that is present, in SpecLin: thread 1's     *)
(* second put and thread 2's remove, when the remove is called after the   *)
(* first put has returned.                                                 *)
(***************************************************************************)
\* the values of the unmarked nodes of the list with key k
LinkedValues(k) == {nodes[n].value : n \in NodesOf(k)}

\* C28: a put(k, v2) concurrent with a remove(k) on a key that holds v1 has
\* one of the outcomes of the two sequential orders: the put returns v1, the
\* remove returns v2 and k is absent, or the remove returns v1, the put
\* returns null and k holds v2; they never both return v1 and the value of
\* a put that has returned is never left in a marked node only.
C28_PutRemoveRace ==
    (Finished /\ <<1, 1>> \in hist[2][1].prior) =>
        LET p == hist[1][2]
            r == hist[2][1]
        IN \/ p.ret = 1 /\ r.ret = 2 /\ LinkedValues(K3) = {}
           \/ r.ret = 1 /\ p.ret = NULL /\ LinkedValues(K3) = {2}

(***************************************************************************)
(* SpecRemove: one thread puts a key, then both threads remove it.         *)
(***************************************************************************)
ProgRemove ==
    [NoProg EXCEPT ![1] = <<Reg, Put(K3, 1), Remove(K3)>>,
                   ![2] = <<Reg, Remove(K3)>>]

InitRemove == Created /\ prog = ProgRemove

NextRemove == \E t \in Threads : Common(t) \/ Delete(t) \/ FindUnlink(t)

SpecRemove == InitRemove /\ [][NextRemove]_vars

\* thread 2's remove was called after the put had returned
BothAfterPut == Len(hist[2]) = 1 /\ <<1, 1>> \in hist[2][1].prior

C30_CountNeverWraps == map_count >= 0

(***************************************************************************)
(* Slots outside a critical section.                                       *)
(***************************************************************************)
\* the scan of thread t's epoch_try_advance is at a slot whose epoch makes
\* it return without advancing
StoppedBy(t) ==
    IF At(t, "adv_epoch") /\ Behind(threads[th[t].i].epoch, th[t].ge2)
    THEN {th[t].i} ELSE {}

\* C31: a thread that is registered but outside any critical section, one
\* that has registered and not yet entered its first critical section
\* included, never prevents the global epoch from advancing: the
\* epoch_try_advance of another thread is never stopped by its slot.
C31_IdleNeverBlocks ==
    \A t \in Threads : \A s \in StoppedBy(t) : threads[s].in_critical

\* C32: in every reachable state the global list holds at most one
\* unmarked regular node per key: a put of a key that already has an
\* unmarked node never links a second node for it.
C32_OneNodePerKey == \A k \in KeySpace : Cardinality(NodesOf(k)) <= 1

(***************************************************************************)
(* The holders of a slot.                                                  *)
(***************************************************************************)
\* thread u holds slot s: its epoch_register has taken s with its CAS, or
\* has returned s and no epoch_unregister of s has stored active = false
\* since
Holds(u, s) ==
    \/ th[u].op \in RegisterOps /\ th[u].pc \in {"reg_load", "reg_store"} /\ th[u].i = s
    \/ ep_tls[u] = s

\* C33: under concurrent register and unregister calls no slot is held by
\* two registered threads at the same time: two register calls return the
\* same index only if an unregister of that index happened between them.
C33_SlotExclusive ==
    \A s \in Slots : \A u, v \in Threads : (Holds(u, s) /\ Holds(v, s)) => u = v

\* thread 3 holds a slot that another thread's register had returned and
\* that thread has unregistered
C33_Witness ==
    \E s \in Slots : \E u \in Threads \ {3} :
        /\ Holds(3, s) /\ myslot[3] = s
        /\ myslot[u] = s /\ ~Holds(u, s)

=============================================================================
